---- MODULE Spec2Model ----
(***************************************************************************)
(* Model of the Active Jobs Search API (src/main.py): the search handler   *)
(* search_jobs, the batch wrapper process_job_data and the alias lookup    *)
(* extract_value.  JSON / Python values are tagged records, mappings are   *)
(* sequences of <<key, value>> pairs in insertion order with distinct keys.*)
(***************************************************************************)
EXTENDS Integers, Sequences, FiniteSets, TLC

VARIABLES
    limit,          \* search_jobs: the limit query parameter
    upstream,       \* search_jobs: outcome of the upstream call (lines 73-75)
    jobs_list,      \* process_job_data: local jobs_list when the loop is reached
    processed_jobs, \* search_jobs: processed_jobs (line 78)
    response,       \* search_jobs: what the caller receives
    job_dict,       \* extract_value: argument
    possible_keys,  \* extract_value: argument
    value,          \* extract_value: returned value
    pc              \* position of the extract_value call

vars == <<limit, upstream, jobs_list, processed_jobs, response,
          job_dict, possible_keys, value, pc>>

(***************************************************************************)
(* Bounds of the explored inputs.                                          *)
(***************************************************************************)
MaxLen == 3
MaxLimit == 2
MaxTop == 3
MaxPairs == 2
MaxAliases == 2

(***************************************************************************)
(* Python values.                                                          *)
(***************************************************************************)
None == [t |-> "null"]
S(s) == [t |-> "str", s |-> s]
N(n) == [t |-> "int", n |-> n]
B(b) == [t |-> "bool", b |-> b]
L(items) == [t |-> "list", items |-> items]
D(pairs) == [t |-> "dict", pairs |-> pairs]

IsDict(v) == v.t = "dict"
IsList(v) == v.t = "list"

\* bool(v): None, "", 0, False, [] and {} are false, everything else true
Truthy(v) ==
    CASE v.t = "null" -> FALSE
      [] v.t = "str"  -> v.s # ""
      [] v.t = "int"  -> v.n # 0
      [] v.t = "bool" -> v.b
      [] v.t = "list" -> v.items # <<>>
      [] v.t = "dict" -> v.pairs # <<>>

\* key in d
HasKey(d, key) == \E i \in 1..Len(d.pairs) : d.pairs[i][1] = key

\* d[key]
Get(d, key) == d.pairs[CHOOSE i \in 1..Len(d.pairs) : d.pairs[i][1] = key][2]

Digit == <<"0", "1", "2", "3", "4", "5", "6", "7", "8", "9">>

RECURSIVE IntStr(_)
IntStr(n) ==
    IF n < 0 THEN "-" \o IntStr(-n)
    ELSE IF n < 10 THEN Digit[n + 1]
    ELSE IntStr(n \div 10) \o Digit[(n % 10) + 1]

RECURSIVE PyRepr(_), ReprItems(_), ReprPairs(_)
\* repr(v); strings are assumed free of quotes, backslashes and control codes
PyRepr(v) ==
    CASE v.t = "null" -> "None"
      [] v.t = "str"  -> "'" \o v.s \o "'"
      [] v.t = "int"  -> IntStr(v.n)
      [] v.t = "bool" -> IF v.b THEN "True" ELSE "False"
      [] v.t = "list" -> "[" \o ReprItems(v.items) \o "]"
      [] v.t = "dict" -> "{" \o ReprPairs(v.pairs) \o "}"

ReprItems(items) ==
    IF items = <<>> THEN ""
    ELSE IF Len(items) = 1 THEN PyRepr(items[1])
    ELSE PyRepr(items[1]) \o ", " \o ReprItems(Tail(items))

ReprPairs(pairs) ==
    IF pairs = <<>> THEN ""
    ELSE IF Len(pairs) = 1 THEN "'" \o pairs[1][1] \o "': " \o PyRepr(pairs[1][2])
    ELSE "'" \o pairs[1][1] \o "': " \o PyRepr(pairs[1][2]) \o ", " \o ReprPairs(Tail(pairs))

\* str(v): a string is itself, anything else prints as its repr
PyStr(v) == IF v.t = "str" THEN v.s ELSE PyRepr(v)

\* s[:n] without the truncation
Slice_all(s, n) == s

\* s[:n]
Slice(s, n) ==
    IF n >= 0 THEN SubSeq(s, 1, IF n < Len(s) THEN n ELSE Len(s))
    ELSE SubSeq(s, 1, IF Len(s) + n > 0 THEN Len(s) + n ELSE 0)

(***************************************************************************)
(* extract_value (lines 148-153).                                          *)
(***************************************************************************)
\* extract_value taking the first alias that is present, empty or not
RECURSIVE extract_value_first_present(_, _)
extract_value_first_present(d, keys) ==
    IF keys = <<>> THEN None
    ELSE IF HasKey(d, Head(keys))
         THEN S(PyStr(Get(d, Head(keys))))
         ELSE extract_value_first_present(d, Tail(keys))

RECURSIVE extract_value(_, _)
extract_value(d, keys) ==
    IF keys = <<>> THEN None
    ELSE IF HasKey(d, Head(keys)) /\ Truthy(Get(d, Head(keys)))
         THEN S(PyStr(Get(d, Head(keys))))
         ELSE extract_value(d, Tail(keys))

(***************************************************************************)
(* process_job_data (lines 90-146).                                        *)
(***************************************************************************)
title_keys == <<"title", "job_title", "jobTitle", "position", "role">>
\* the company aliases with company_name ahead of company
company_keys_swapped == <<"company_name", "company", "companyName", "employer", "organization">>
company_keys == <<"company", "company_name", "companyName", "employer", "organization">>
link_keys == <<"url", "link", "job_url", "jobUrl", "apply_link", "application_link">>
location_keys == <<"location", "job_location", "jobLocation", "area", "place">>
desc_keys == <<"description", "job_description", "jobDescription", "details", "summary">>
date_keys == <<"date", "date_posted", "datePosted", "posted_date", "postDate">>

\* the title without its default
OrNA_keep(x) == x

\* x or "N/A"
OrNA(x) == IF Truthy(x) THEN x ELSE S("N/A")

\* the record built from one mapping-typed entry (lines 128-142)
JobDetail(job) ==
    [job_title    |-> OrNA(extract_value(job, title_keys)),
     company_name |-> extract_value(job, company_keys),
     job_link     |-> extract_value(job, link_keys),
     location     |-> extract_value(job, location_keys),
     description  |-> extract_value(job, desc_keys),
     date_posted  |-> extract_value(job, date_keys)]

\* the loop over jobs_list (lines 123-144)
RECURSIVE extracted_jobs(_)
extracted_jobs(jl) ==
    IF jl = <<>> THEN <<>>
    ELSE IF ~IsDict(Head(jl)) THEN extracted_jobs(Tail(jl))
    ELSE <<JobDetail(Head(jl))>> \o extracted_jobs(Tail(jl))

\* the loop over job_data.items() (lines 107-110): stops at the first list
RECURSIVE first_list(_, _)
first_list(pairs, lim) ==
    IF pairs = <<>> THEN <<>>
    ELSE IF IsList(pairs[1][2]) THEN Slice(pairs[1][2].items, lim)
    ELSE first_list(Tail(pairs), lim)

\* jobs_list taken from the first list-typed value even when "jobs" holds a list
select_jobs_list_first(job_data, lim) ==
    IF IsList(job_data) THEN Slice(job_data.items, lim)
    ELSE IF IsDict(job_data) THEN first_list(job_data.pairs, lim)
    ELSE <<>>

\* jobs_list also looked for one level down, inside a mapping-typed value
select_jobs_list_deep(job_data, lim) ==
    IF IsList(job_data) THEN Slice(job_data.items, lim)
    ELSE IF IsDict(job_data)
         THEN IF HasKey(job_data, "jobs") /\ IsList(Get(job_data, "jobs"))
              THEN Slice(Get(job_data, "jobs").items, lim)
              ELSE IF \E i \in 1..Len(job_data.pairs) : IsList(job_data.pairs[i][2])
                   THEN first_list(job_data.pairs, lim)
                   ELSE IF \E i \in 1..Len(job_data.pairs) : IsDict(job_data.pairs[i][2])
                        THEN first_list(job_data.pairs[CHOOSE i \in 1..Len(job_data.pairs) :
                                            IsDict(job_data.pairs[i][2])][2].pairs, lim)
                        ELSE <<>>
         ELSE <<>>

\* the assignment of jobs_list (lines 99-110)
select_jobs_list(job_data, lim) ==
    IF IsList(job_data) THEN Slice(job_data.items, lim)
    ELSE IF IsDict(job_data)
         THEN IF HasKey(job_data, "jobs") /\ IsList(Get(job_data, "jobs"))
              THEN Slice(Get(job_data, "jobs").items, lim)
              ELSE first_list(job_data.pairs, lim)
         ELSE <<>>

\* the guard left out
early_return_never(job_data) == FALSE

\* the guard of lines 95-96, which returns before jobs_list is assigned
early_return(job_data) == ~IsDict(job_data)

\* jobs_list as the loop of line 123 sees it (empty when the loop is not reached)
jobs_list_of(job_data, lim) ==
    IF early_return(job_data) THEN <<>> ELSE select_jobs_list(job_data, lim)

\* non-mapping entries skipped before the truncation to lim
process_job_data_skip_first(job_data, lim) ==
    IF early_return(job_data) THEN <<>>
    ELSE extracted_jobs(Slice(SelectSeq(select_jobs_list(job_data, MaxLen + MaxLimit), IsDict), lim))

process_job_data(job_data, lim) ==
    IF early_return(job_data) THEN <<>>
    ELSE IF select_jobs_list(job_data, lim) = <<>> THEN <<>>
    ELSE extracted_jobs(select_jobs_list(job_data, lim))

(***************************************************************************)
(* search_jobs (lines 36-88).                                              *)
(***************************************************************************)
LimitMin == 1

\* total_results counting one entry too many
success_response_off(processed) ==
    [status |-> 200, total_results |-> Len(processed) + 1, jobs |-> processed]

\* the body returned on success (lines 80-83)
success_response(processed) ==
    [status |-> 200, total_results |-> Len(processed), jobs |-> processed]

\* the HTTPException details of lines 86 and 88 (the exception text is left out)
failure_details(up) ==
    CASE up.kind = "connection_error" -> {"Error fetching job data: "}
      [] up.kind = "http_error" -> {"Error fetching job data: "}
      [] up.kind = "invalid_json" ->
            \* requests >= 2.27 raises a RequestException, older ones a ValueError
            {"Error fetching job data: ", "An unexpected error occurred: "}

failure_response(d) == [status |-> 500, detail |-> d]

(***************************************************************************)
(* Explored inputs.                                                        *)
(***************************************************************************)
\* mappings of at most n pairs, keys in K (distinct), values in V
PairSeqs(K, V, n) ==
    UNION {{p \in [1..m -> K \X V] :
                \A i, j \in 1..m : i < j => p[i][1] # p[j][1]} : m \in 0..n}

SeqsUpTo(X, n) == UNION {[1..m -> X] : m \in 0..n}

\* extract_value
DictKeys == {"title", "job_title", "id"}
AliasKeys == {"title", "job_title", "role"}
ExtractVals ==
    {None, S(""), S("Acme"), N(0), N(42), B(FALSE),
     L(<<>>), L(<<N(-1), S("a")>>), D(<<>>), D(<<<<"k", None>>, <<"n", N(10)>>>>)}
ExtractDicts == {D(p) : p \in PairSeqs(DictKeys, ExtractVals, MaxPairs)}
AliasLists == SeqsUpTo(AliasKeys, MaxAliases)

\* raw entries varied in their title and company aliases
EntryKeys == {"title", "job_title", "company", "company_name"}
EntryVals == {None, S(""), S("Acme"), S("Engineer"), N(0), L(<<S("x")>>)}
RichEntries == {D(p) : p \in PairSeqs(EntryKeys, EntryVals, MaxPairs)}

\* raw entries of the varied lists: two mappings and a non-mapping
E1 ==
    D(<<<<"title", S("Data Engineer")>>, <<"organization", S("Acme")>>,
        <<"url", S("https://a.example/1")>>, <<"location", L(<<S("Paris"), S("FR")>>)>>,
        <<"description", D(<<<<"text", S("etl")>>>>)>>, <<"date", N(20240131)>>>>)
E2 ==
    D(<<<<"id", N(7)>>, <<"role", S("")>>, <<"employer", B(TRUE)>>,
        <<"apply_link", S("https://b.example/2")>>, <<"place", S("Remote")>>>>)
Items == {E1, E2, S("junk")}
Lists == SeqsUpTo(Items, MaxLen)

TopKeys == {"jobs", "data", "count"}
WrapVals == {L(<<>>), L(<<E1>>), L(<<E2, E1>>), N(3), D(<<<<"jobs", L(<<E1>>)>>>>)}

Payloads ==
    {None, S("error"), N(0)}
    \cup {L(l) : l \in Lists}
    \cup {D(<<<<k, L(l)>>>>) : k \in {"jobs", "data"}, l \in Lists}
    \cup {D(<<<<"jobs", L(<<e>>)>>>>) : e \in RichEntries}
    \cup {D(p) : p \in PairSeqs(TopKeys, WrapVals, MaxTop)}

Upstreams ==
    {[kind |-> k, body |-> None] : k \in {"connection_error", "http_error", "invalid_json"}}
    \cup {[kind |-> "ok", body |-> p] : p \in Payloads}

(***************************************************************************)
(* The service handling one search request: the request's limit and the    *)
(* outcome of its upstream call are the inputs.                            *)
(***************************************************************************)
NoResponse == [status |-> 0]
NoUpstream == [kind |-> "none", body |-> None]

Init ==
    /\ limit \in LimitMin..MaxLimit
    /\ upstream \in Upstreams
    /\ jobs_list = <<>>
    /\ processed_jobs = <<>>
    /\ response = NoResponse
    /\ job_dict = D(<<>>)
    /\ possible_keys = <<>>
    /\ value = None
    /\ pc = "request"

search_jobs ==
    /\ pc = "request"
    /\ IF upstream.kind = "ok"
       THEN /\ jobs_list' = jobs_list_of(upstream.body, limit)
            /\ processed_jobs' = process_job_data(upstream.body, limit)
            /\ response' = success_response(process_job_data(upstream.body, limit))
       ELSE /\ jobs_list' = <<>>
            /\ processed_jobs' = <<>>
            /\ \E d \in failure_details(upstream) : response' = failure_response(d)
    /\ pc' = "responded"
    /\ UNCHANGED <<limit, upstream, job_dict, possible_keys, value>>

Next == search_jobs

Spec == Init /\ [][Next]_vars

(***************************************************************************)
(* extract_value applied to drawn arguments.                               *)
(***************************************************************************)
InitExtract ==
    /\ limit = LimitMin
    /\ upstream = NoUpstream
    /\ jobs_list = <<>>
    /\ processed_jobs = <<>>
    /\ response = NoResponse
    /\ job_dict \in ExtractDicts
    /\ possible_keys \in AliasLists
    /\ value = None
    /\ pc = "call"

ExtractValue ==
    /\ pc = "call"
    /\ value' = extract_value(job_dict, possible_keys)
    /\ pc' = "done"
    /\ UNCHANGED <<limit, upstream, jobs_list, processed_jobs, response,
                   job_dict, possible_keys>>

NextExtract == ExtractValue

SpecExtract == InitExtract /\ [][NextExtract]_vars

(***************************************************************************)
(* Vocabulary of the properties.                                           *)
(***************************************************************************)
Responded == pc = "responded" /\ upstream.kind = "ok"

\* positions of the list-typed values of a mapping, and of a list-typed "jobs"
ListIdx(m) == {i \in 1..Len(m.pairs) : m.pairs[i][2].t = "list"}
JobsIdx(m) == {i \in ListIdx(m) : m.pairs[i][1] = "jobs"}
MinOf(I) == CHOOSE i \in I : \A j \in I : i <= j

\* the upstream list a mapping-typed payload designates (empty when it has none)
Chosen(m) ==
    IF JobsIdx(m) # {} THEN m.pairs[MinOf(JobsIdx(m))][2].items
    ELSE IF ListIdx(m) # {} THEN m.pairs[MinOf(ListIdx(m))][2].items
    ELSE <<>>

FirstN(s, n) == [i \in 1..(IF n < Len(s) THEN n ELSE Len(s)) |-> s[i]]
Mappings(s) == SelectSeq(s, IsDict)
NoAlias(e, keys) == \A i \in 1..Len(keys) : \A j \in 1..Len(e.pairs) : e.pairs[j][1] # keys[i]
Filled(e, key) == \E j \in 1..Len(e.pairs) : e.pairs[j][1] = key /\ Truthy(e.pairs[j][2])
ValueAt(e, key) == e.pairs[CHOOSE j \in 1..Len(e.pairs) : e.pairs[j][1] = key][2]

\* positions of the aliases of possible_keys that job_dict fills
MatchIdx == {i \in 1..Len(possible_keys) : Filled(job_dict, possible_keys[i])}

\* C1: extract_value returns the string form of the value under the first
\* alias, in declared order, that is present with a truthy value; present but
\* empty aliases before it are skipped and later aliases are ignored.
C1_FirstFilledAlias ==
    (pc = "done" /\ MatchIdx # {}) =>
        value = S(PyStr(ValueAt(job_dict, possible_keys[MinOf(MatchIdx)])))

C1_Witness ==
    /\ pc = "done"
    /\ Len(possible_keys) = 2
    /\ HasKey(job_dict, possible_keys[1])
    /\ ~Truthy(Get(job_dict, possible_keys[1]))
    /\ Filled(job_dict, possible_keys[2])
    /\ Get(job_dict, possible_keys[2]).t = "list"
    /\ value = S("[-1, 'a']")

\* C2: a mapping-typed entry with no alias key of a field present gives a
\* record whose field is the absent marker: "N/A" for job_title, null for
\* company_name, job_link, location, description and date_posted.
C2_AbsentMarkers ==
    Responded =>
        /\ Len(processed_jobs) = Len(Mappings(jobs_list))
        /\ \A k \in 1..Len(processed_jobs) :
            LET e == Mappings(jobs_list)[k]
                r == processed_jobs[k]
            IN  /\ NoAlias(e, title_keys) => r.job_title = S("N/A")
                /\ NoAlias(e, company_keys) => r.company_name = None
                /\ NoAlias(e, link_keys) => r.job_link = None
                /\ NoAlias(e, location_keys) => r.location = None
                /\ NoAlias(e, desc_keys) => r.description = None
                /\ NoAlias(e, date_keys) => r.date_posted = None

C2_Witness ==
    /\ Responded
    /\ \E k \in 1..Len(processed_jobs) :
        /\ Mappings(jobs_list)[k].pairs # <<>>
        /\ NoAlias(Mappings(jobs_list)[k], title_keys)
        /\ ~NoAlias(Mappings(jobs_list)[k], company_keys)
        /\ processed_jobs[k].job_title = S("N/A")
        /\ processed_jobs[k].company_name # None
        /\ processed_jobs[k].date_posted = None

\* C3: process_job_data returns at most limit records, however many entries
\* the upstream list holds.
C3_AtMostLimit ==
    Responded => Len(processed_jobs) <= limit /\ Len(response.jobs) <= limit

C3_Witness ==
    /\ Responded
    /\ IsDict(upstream.body)
    /\ Len(Mappings(Chosen(upstream.body))) > limit
    /\ Len(processed_jobs) = limit

\* C4: a mapping-typed payload with no list-typed top-level value gives the
\* empty sequence, returned in a success response.
C4_NoListIsEmpty ==
    (Responded /\ IsDict(upstream.body) /\ ListIdx(upstream.body) = {}) =>
        /\ processed_jobs = <<>>
        /\ response.status = 200
        /\ response.jobs = <<>>

C4_Witness ==
    /\ Responded
    /\ IsDict(upstream.body)
    /\ ListIdx(upstream.body) = {}
    /\ \E i \in 1..Len(upstream.body.pairs) : IsDict(upstream.body.pairs[i][2])
    /\ response.status = 200
    /\ processed_jobs = <<>>

\* C5: a payload that is itself a list is truncated to its first limit entries
\* and the record of each mapping-typed entry among them is returned.
C5_TopLevelList ==
    (Responded /\ IsList(upstream.body)) =>
        processed_jobs = extracted_jobs(FirstN(upstream.body.items, limit))

\* C6 as claimed: with company_name and company both filled, the record's
\* company_name is the string form of the value under company_name.
C6_CompanyNameFirst ==
    Responded =>
        \A k \in 1..Len(processed_jobs) :
            LET e == Mappings(jobs_list)[k]
            IN  (Filled(e, "company_name") /\ Filled(e, "company")) =>
                    processed_jobs[k].company_name = S(PyStr(ValueAt(e, "company_name")))

\* C6 as amended: with company_name and company both filled, the record's
\* company_name is the string form of the value under company.
C6_CompanyFirst ==
    Responded =>
        /\ Len(processed_jobs) = Len(Mappings(jobs_list))
        /\ \A k \in 1..Len(processed_jobs) :
            LET e == Mappings(jobs_list)[k]
            IN  (Filled(e, "company_name") /\ Filled(e, "company")) =>
                    processed_jobs[k].company_name = S(PyStr(ValueAt(e, "company")))

C6_Witness ==
    /\ Responded
    /\ \E k \in 1..Len(processed_jobs) :
        LET e == Mappings(jobs_list)[k]
        IN  /\ Filled(e, "company_name")
            /\ Filled(e, "company")
            /\ e.pairs[1][1] = "company_name"
            /\ PyStr(ValueAt(e, "company_name")) # PyStr(ValueAt(e, "company"))
            /\ processed_jobs[k].company_name = S(PyStr(ValueAt(e, "company")))

\* C7: for a mapping-typed payload the list worked on is the value under
\* "jobs" when that is list-typed, otherwise the first list-typed value in key
\* order; no later list is consulted, also when the chosen list is empty.
C7_ChosenList ==
    (Responded /\ IsDict(upstream.body)) =>
        /\ jobs_list = FirstN(Chosen(upstream.body), limit)
        /\ Chosen(upstream.body) = <<>> => processed_jobs = <<>>

C7_Witness ==
    /\ Responded
    /\ IsDict(upstream.body)
    /\ JobsIdx(upstream.body) # {}
    /\ MinOf(ListIdx(upstream.body)) < MinOf(JobsIdx(upstream.body))
    /\ upstream.body.pairs[MinOf(ListIdx(upstream.body))][2].items # <<>>
    /\ FirstN(upstream.body.pairs[MinOf(ListIdx(upstream.body))][2].items, limit)
         # FirstN(Chosen(upstream.body), limit)
    /\ jobs_list = FirstN(Chosen(upstream.body), limit)

\* C7, second case: "jobs" is present but not a list, the first list is empty
\* and a later list is not: nothing is returned.
C7_WitnessEmptyFirst ==
    /\ Responded
    /\ IsDict(upstream.body)
    /\ HasKey(upstream.body, "jobs")
    /\ JobsIdx(upstream.body) = {}
    /\ Cardinality(ListIdx(upstream.body)) = 2
    /\ Chosen(upstream.body) = <<>>
    /\ processed_jobs = <<>>

\* C8: the result is the sequence of records of the mapping-typed entries
\* among the first limit elements of the chosen list, in their order:
\* truncation comes before the skipping of non-mapping entries.
C8_TruncateThenSkip ==
    (Responded /\ IsDict(upstream.body)) =>
        LET src == Mappings(FirstN(Chosen(upstream.body), limit))
        IN  processed_jobs = [k \in 1..Len(src) |-> JobDetail(src[k])]

C8_Witness ==
    /\ Responded
    /\ IsDict(upstream.body)
    /\ Len(Chosen(upstream.body)) > limit
    /\ IsDict(Chosen(upstream.body)[limit + 1])
    /\ limit = 2
    /\ ~IsDict(Chosen(upstream.body)[1])
    /\ IsDict(Chosen(upstream.body)[2])
    /\ Len(processed_jobs) < limit
    /\ processed_jobs = <<JobDetail(Chosen(upstream.body)[2])>>

\* C9: an upstream transport or HTTP-status failure ends in a 500 response
\* without a job list; a received payload that is not a mapping or holds no
\* list ends in a success response with zero jobs.
C9_FailureAndZeroResult ==
    pc = "responded" =>
        /\ upstream.kind \in {"connection_error", "http_error"} =>
            (response.status = 500 /\ "jobs" \notin DOMAIN response)
        /\ (upstream.kind = "ok"
              /\ (~IsDict(upstream.body) \/ ListIdx(upstream.body) = {})) =>
            (response.status = 200 /\ response.total_results = 0 /\ response.jobs = <<>>)

C9_Witness ==
    /\ Responded
    /\ IsList(upstream.body)
    /\ Mappings(upstream.body.items) # <<>>
    /\ response.status = 200
    /\ response.total_results = 0

\* C10: in a success response total_results is the number of records in jobs,
\* between 0 and limit.
C10_TotalIsCount ==
    (pc = "responded" /\ response.status = 200) =>
        /\ response.total_results = Len(response.jobs)
        /\ 0 <= response.total_results
        /\ response.total_results <= limit

C10_Witness ==
    /\ Responded
    /\ IsDict(upstream.body)
    /\ response.status = 200
    /\ response.total_results = 1
    /\ Len(Chosen(upstream.body)) = 3
    /\ Len(response.jobs) = 1

====
